---- MODULE Spec2Model ----
(***************************************************************************)
(* The CMOS real-time-clock reader of src/src/lib.rs.                      *)
(*                                                                         *)
(* The device is the CMOS register file behind the address port 0x70 and   *)
(* the data port 0x71: a write to 0x70 latches a register index, a read of *)
(* 0x71 returns the byte of the latched register.  A reader (ReadRTC)      *)
(* performs read(): update_time() until two consecutive samples agree,     *)
(* then register 0x0B, BCD decoding, 12-hour conversion and the year.      *)
(* Every port operation is one step, so that the device (and a second      *)
(* reader on the same ports) can act between any two of them.              *)
(***************************************************************************)
EXTENDS Integers, Sequences, FiniteSets, TLC

\* ------------------------------------------------------------------ bounds
\* polls of register 0x0A that return the update flag set, per read() call
MaxPolls == 2
\* full samples (calls of update_time) per read() call
MaxSamples == 3
\* device events (a flag set, a register change) in one behaviour
MaxDevEvents == 2
\* largest field value of the Time values handed to cmp
MaxOrdField == 1

\* --------------------------------------------------------------- constants
CMOS_ADDRESS == 112
CMOS_DATA == 113

\* register indices used by the reader
REG_SECOND == 0
REG_MINUTE == 2
REG_HOUR == 4
REG_DAY == 7
REG_MONTH == 8
REG_YEAR == 9
REG_STATUS_A == 10
REG_STATUS_B == 11
\* the century register index a platform configures (0x32 on most)
REG_CENTURY == 50

\* the update-in-progress bit of register 0x0A
UIP_BIT == 128

Byte == 0 .. 255

\* the two reader instances that may exist on the one pair of ports
Instances == {1, 2}

\* ------------------------------------------------------------- u8 helpers
RECURSIVE BitAndN(_, _, _)
BitAndN(a, b, n) ==
    IF n = 0 THEN 0
    ELSE (IF a % 2 = 1 /\ b % 2 = 1 THEN 1 ELSE 0)
         + 2 * BitAndN(a \div 2, b \div 2, n - 1)

\* u8 & u8
BitAnd(a, b) == BitAndN(a, b, 8)

RECURSIVE BitOrN(_, _, _)
BitOrN(a, b, n) ==
    IF n = 0 THEN 0
    ELSE (IF a % 2 = 1 \/ b % 2 = 1 THEN 1 ELSE 0)
         + 2 * BitOrN(a \div 2, b \div 2, n - 1)

\* u8 | u8
BitOr(a, b) == BitOrN(a, b, 8)

\* a u8 result: the wrapped value, and whether the exact value left 0..255
\* (with overflow checks compiled in, the operation panics instead)
U8(x) == [val |-> x % 256, ovf |-> x > 255]

\* -------------------------------------------------------------------- Time
Time == [second : Byte, minute : Byte, hour : Byte, day : Byte,
         month : Byte, year : Byte, century : Byte]

\* Time::default()
TimeDefault == [second |-> 0, minute |-> 0, hour |-> 0, day |-> 0,
                month |-> 0, year |-> 0, century |-> 0]

Less == "Less"
Equal == "Equal"
Greater == "Greater"

\* u8::cmp
cmp_u8(a, b) == IF a < b THEN Less ELSE IF a > b THEN Greater ELSE Equal

\* Ordering::then
then(o, p) == IF o = Equal THEN p ELSE o

\* a comparison that takes the fields in declaration order
cmp_second_first(self, other) ==
    then(then(then(then(then(then(
        cmp_u8(self.second, other.second),
        cmp_u8(self.minute, other.minute)),
        cmp_u8(self.hour, other.hour)),
        cmp_u8(self.day, other.day)),
        cmp_u8(self.month, other.month)),
        cmp_u8(self.year, other.year)),
        cmp_u8(self.century, other.century))

\* <Time as Ord>::cmp
cmp(self, other) ==
    then(then(then(then(then(then(
        cmp_u8(self.century, other.century),
        cmp_u8(self.year, other.year)),
        cmp_u8(self.month, other.month)),
        cmp_u8(self.day, other.day)),
        cmp_u8(self.hour, other.hour)),
        cmp_u8(self.minute, other.minute)),
        cmp_u8(self.second, other.second))

\* <Time as PartialOrd>::partial_cmp, the value inside Some
partial_cmp(self, other) == cmp(self, other)

\* self < other and self > other, as PartialOrd provides them
lt(self, other) == partial_cmp(self, other) = Less
gt(self, other) == partial_cmp(self, other) = Greater

\* <Time as PartialEq>::eq (derived)
eq(self, other) ==
    /\ self.second = other.second
    /\ self.minute = other.minute
    /\ self.hour = other.hour
    /\ self.day = other.day
    /\ self.month = other.month
    /\ self.year = other.year
    /\ self.century = other.century

\* ------------------------------------------------- the arithmetic of read()
\* a decode that weighs the high digit by 16
bcd_hex(b) == BitAnd(b, 15) + ((b \div 16) * 16)

\* lines 131-140: packed BCD to binary
bcd(b) == BitAnd(b, 15) + ((b \div 16) * 10)

\* an hour decode that loses the top bit
bcd_hour_drop_pm(h) == BitAnd(h, 15) + ((BitAnd(h, 112) \div 16) * 10)

\* lines 133-134: the hour keeps its top bit
bcd_hour(h) ==
    BitOr(BitAnd(h, 15) + ((BitAnd(h, 112) \div 16) * 10), BitAnd(h, 128))

\* a mode test that decodes whatever register B says
is_bcd_always(register_b) == BitAnd(register_b, 4) \in {0, 4}

\* line 130: register B says the device counts in BCD
is_bcd(register_b) == BitAnd(register_b, 4) = 0

\* lines 130-142
decode_bcd(t, register_b, century_register) ==
    IF is_bcd(register_b)
    THEN [second  |-> bcd(t.second),
          minute  |-> bcd(t.minute),
          hour    |-> bcd_hour(t.hour),
          day     |-> bcd(t.day),
          month   |-> bcd(t.month),
          year    |-> bcd(t.year),
          century |-> IF century_register # 0 THEN bcd(t.century)
                      ELSE t.century]
    ELSE t

\* the conversion without the modulus
hour_plus_12(hour) == BitAnd(hour, 127) + 12

\* line 146
hour_12_to_24(hour) == (BitAnd(hour, 127) + 12) % 24

\* line 145
is_pm_12h(register_b, hour) ==
    BitAnd(register_b, 2) = 0 /\ BitAnd(hour, 128) # 0

\* lines 145-147
convert_hour(t, register_b) ==
    IF is_pm_12h(register_b, t.hour)
    THEN [t EXCEPT !.hour = hour_12_to_24(t.hour)]
    ELSE t

\* lines 151-155: no century register
year_from_current(year, current_year) ==
    LET a == U8(year + ((current_year \div 100) * 100))
        b == IF a.val < current_year THEN U8(a.val + 100)
             ELSE [val |-> a.val, ovf |-> FALSE]
    IN  [val |-> b.val, ovf |-> a.ovf \/ b.ovf]

\* line 157: a century register
year_from_century(year, century) ==
    LET m == U8(century * 100)
        s == U8(year + m.val)
    IN  [val |-> s.val, ovf |-> m.ovf \/ s.ovf]

\* lines 150-158
resolve_year(t, current_year, century_register) ==
    LET y == IF century_register = 0
             THEN year_from_current(t.year, current_year)
             ELSE year_from_century(t.year, t.century)
    IN  [time |-> [t EXCEPT !.year = y.val], ovf |-> y.ovf]

\* a stable-sample test that forgets the second
same_sample_no_second(last_time, time) ==
    /\ last_time.minute = time.minute
    /\ last_time.hour = time.hour
    /\ last_time.day = time.day
    /\ last_time.month = time.month
    /\ last_time.year = time.year
    /\ last_time.century = time.century

same_sample_no_minute(last_time, time) ==
    /\ last_time.second = time.second
    /\ last_time.hour = time.hour
    /\ last_time.day = time.day
    /\ last_time.month = time.month
    /\ last_time.year = time.year
    /\ last_time.century = time.century

\* lines 116-122: the stable-sample test
same_sample(last_time, time) ==
    /\ last_time.second = time.second
    /\ last_time.minute = time.minute
    /\ last_time.hour = time.hour
    /\ last_time.day = time.day
    /\ last_time.month = time.month
    /\ last_time.year = time.year
    /\ last_time.century = time.century

\* a flag taken from bit 0x40
update_in_progress_flag_bit6(data) == BitAnd(data, 64)

\* line 75: the flag get_update_in_progress_flag returns
update_in_progress_flag(data) == BitAnd(data, UIP_BIT)

\* a busy-wait with the test inverted
poll_again_inverted(flag) == flag = 0

\* line 90: the busy-wait condition
poll_again(flag) == flag # 0

\* the registers of a sample with the hour read before the minute
TimeRegistersHourFirst == <<REG_SECOND, REG_HOUR, REG_MINUTE, REG_DAY, REG_MONTH, REG_YEAR>>

\* lines 93-98: the registers of a sample, in the order they are read
TimeRegisters == <<REG_SECOND, REG_MINUTE, REG_HOUR, REG_DAY, REG_MONTH, REG_YEAR>>

\* the register the k-th field of a sample is read from
field_register(k, century_register) ==
    IF k <= 6 THEN TimeRegisters[k] ELSE century_register

\* lines 92-104: the field of the Time literal the k-th read fills
set_field(t, k, v) ==
    CASE k = 1 -> [t EXCEPT !.second = v]
      [] k = 2 -> [t EXCEPT !.minute = v]
      [] k = 3 -> [t EXCEPT !.hour = v]
      [] k = 4 -> [t EXCEPT !.day = v]
      [] k = 5 -> [t EXCEPT !.month = v]
      [] k = 6 -> [t EXCEPT !.year = v]
      [] OTHER -> [t EXCEPT !.century = v]

\* a sample that always reads a century register
last_field_always_century(k, century_register) == k = 7

\* lines 99-103: the last read of a sample
last_field(k, century_register) ==
    IF century_register = 0 THEN k = 6 ELSE k = 7

\* ------------------------------------------------------------------ state
VARIABLES
    regs,              \* the device: CMOS register index -> byte
    addr,              \* the device: the index latched by the last write to 0x70
    devEvents,         \* device events so far
    current_year,      \* ReadRTC.current_year
    century_register,  \* ReadRTC.century_register
    overflow_checks,   \* the build: TRUE when u8 overflow panics (debug profile)
    callers,           \* the reader instances of this behaviour
    pc,                \* per instance: the position in read()
    fld,               \* per instance: the field update_time reads next (1..7)
    cur,               \* per instance: the Time literal update_time is filling
    time,              \* per instance: read()'s time
    last_time,         \* per instance: read()'s last_time
    register_b,        \* per instance: read()'s register_b
    nsamp,             \* per instance: update_time calls completed in this read()
    npoll,             \* per instance: polls that returned the flag set
    ops,               \* per instance: port operations since update_time began
    samples,           \* per instance: the samples of this read(), in order
    sel,               \* per instance: the index this instance wrote to 0x70 last
    misread,           \* per instance: a data read came from another index
    overlap,           \* per instance: another read() was in flight during this one
    snaps,             \* per instance: the clock snapshots the device held
                       \* <<during the sample before, since this sample began>>
    chg,               \* per instance: device changes of the clock registers
                       \* <<during the sample before, since this sample began>>
    lhs, rhs,          \* the two Time values that are compared
    ordering,          \* the result of lhs.cmp(&rhs), "none" before the call
    relations          \* the results of lhs < rhs, lhs == rhs, lhs > rhs

vars == <<regs, addr, devEvents, current_year, century_register, overflow_checks,
          callers, pc, fld, cur, time, last_time, register_b, nsamp, npoll, ops,
          samples, sel, misread, overlap, snaps, chg, lhs, rhs, ordering,
          relations>>

devVars == <<regs, addr, devEvents>>
cfgVars == <<current_year, century_register, overflow_checks, callers>>
ordVars == <<lhs, rhs, ordering, relations>>
histVars == <<snaps, chg>>

\* the registers the model keeps
Registers == {REG_SECOND, REG_MINUTE, REG_HOUR, REG_DAY, REG_MONTH, REG_YEAR,
              REG_STATUS_A, REG_STATUS_B, REG_CENTURY}

\* the registers that hold the time
ClockRegisters == {REG_SECOND, REG_MINUTE, REG_HOUR, REG_DAY, REG_MONTH,
                   REG_YEAR, REG_CENTURY}

\* a register file
Cmos(second, minute, hour, day, month, year, century, status_a, status_b) ==
    (REG_SECOND :> second) @@ (REG_MINUTE :> minute) @@ (REG_HOUR :> hour) @@
    (REG_DAY :> day) @@ (REG_MONTH :> month) @@ (REG_YEAR :> year) @@
    (REG_CENTURY :> century) @@ (REG_STATUS_A :> status_a) @@
    (REG_STATUS_B :> status_b)

\* Port::read on CMOS_DATA: the byte of the latched register
data_port == regs[addr]

InFlight(c) == pc[c] \notin {"idle", "done", "panicked"}

\* the positions of read() in the stable-sample loop
InLoop == {"update_time", "poll_sel", "poll_rd", "reg_sel", "reg_rd"}

\* the Time a sample of the register file r would be (lines 92-104)
Snapshot(r) ==
    [second |-> r[REG_SECOND], minute |-> r[REG_MINUTE], hour |-> r[REG_HOUR],
     day |-> r[REG_DAY], month |-> r[REG_MONTH], year |-> r[REG_YEAR],
     century |-> IF century_register = 0 THEN 0 ELSE r[century_register]]

\* the device changed its clock registers to r: the sampling calls see it
Observe(r) ==
    /\ snaps' = [c \in Instances |->
                    IF pc[c] \in InLoop
                    THEN <<snaps[c][1], snaps[c][2] \cup {Snapshot(r)}>>
                    ELSE snaps[c]]
    /\ chg' = [c \in Instances |->
                  IF pc[c] \in InLoop THEN <<chg[c][1], chg[c][2] + 1>>
                  ELSE chg[c]]

\* one port operation in the trace of an instance
Out(port, v) == [op |-> "out", port |-> port, val |-> v]
In(port, v) == [op |-> "in", port |-> port, val |-> v]

\* ----------------------------------------------------------------- reader
\* ReadRTC::new, as far as an instance has state: nothing in flight
ReaderInit ==
    /\ pc = [c \in Instances |-> "idle"]
    /\ fld = [c \in Instances |-> 1]
    /\ cur = [c \in Instances |-> TimeDefault]
    /\ time = [c \in Instances |-> TimeDefault]
    /\ last_time = [c \in Instances |-> TimeDefault]
    /\ register_b = [c \in Instances |-> 0]
    /\ nsamp = [c \in Instances |-> 0]
    /\ npoll = [c \in Instances |-> 0]
    /\ ops = [c \in Instances |-> <<>>]
    /\ samples = [c \in Instances |-> <<>>]
    /\ sel = [c \in Instances |-> 0]
    /\ misread = [c \in Instances |-> FALSE]
    /\ overlap = [c \in Instances |-> FALSE]
    /\ snaps = [c \in Instances |-> <<{}, {}>>]
    /\ chg = [c \in Instances |-> <<0, 0>>]

\* read() is called (line 108)
ReadCall(c) ==
    /\ c \in callers
    /\ pc[c] \in {"idle", "done"}
    /\ pc' = [pc EXCEPT ![c] = "update_time"]
    /\ fld' = [fld EXCEPT ![c] = 1]
    /\ cur' = [cur EXCEPT ![c] = TimeDefault]
    /\ time' = [time EXCEPT ![c] = TimeDefault]
    /\ last_time' = [last_time EXCEPT ![c] = TimeDefault]
    /\ register_b' = [register_b EXCEPT ![c] = 0]
    /\ nsamp' = [nsamp EXCEPT ![c] = 0]
    /\ npoll' = [npoll EXCEPT ![c] = 0]
    /\ ops' = [ops EXCEPT ![c] = <<>>]
    /\ samples' = [samples EXCEPT ![c] = <<>>]
    /\ misread' = [misread EXCEPT ![c] = FALSE]
    /\ overlap' = [d \in Instances |->
                     IF d = c THEN \E e \in Instances \ {c} : InFlight(e)
                     ELSE IF InFlight(d) THEN TRUE ELSE overlap[d]]
    /\ UNCHANGED <<devVars, cfgVars, ordVars, sel>>

\* update_time() is entered (lines 110, 114)
UpdateTime(c) ==
    /\ pc[c] = "update_time"
    /\ nsamp[c] < MaxSamples
    /\ pc' = [pc EXCEPT ![c] = "poll_sel"]
    /\ ops' = [ops EXCEPT ![c] = <<>>]
    /\ cur' = [cur EXCEPT ![c] = TimeDefault]
    /\ fld' = [fld EXCEPT ![c] = 1]
    /\ UNCHANGED <<devVars, cfgVars, ordVars, histVars, time, last_time, register_b, nsamp,
                   npoll, samples, sel, misread, overlap>>

\* a write that goes to the data port: the address latch keeps its index
select_data_port(c, reg) ==
    /\ addr' = addr
    /\ sel' = [sel EXCEPT ![c] = reg]
    /\ ops' = [ops EXCEPT ![c] = Append(@, Out(CMOS_DATA, reg))]
    /\ UNCHANGED <<regs, devEvents>>

\* the port write of an instance: Port::write on CMOS_ADDRESS
select(c, reg) ==
    /\ addr' = reg
    /\ sel' = [sel EXCEPT ![c] = reg]
    /\ ops' = [ops EXCEPT ![c] = Append(@, Out(CMOS_ADDRESS, reg))]
    /\ UNCHANGED <<regs, devEvents>>

\* the port read of an instance: Port::read on CMOS_DATA
fetch(c) ==
    /\ ops' = [ops EXCEPT ![c] = Append(@, In(CMOS_DATA, data_port))]
    /\ misread' = [misread EXCEPT ![c] = @ \/ addr # sel[c]]
    /\ UNCHANGED <<devVars, sel>>

\* get_update_in_progress_flag, line 74
PollSelect(c) ==
    /\ pc[c] = "poll_sel"
    /\ select(c, REG_STATUS_A)
    /\ pc' = [pc EXCEPT ![c] = "poll_rd"]
    /\ UNCHANGED <<cfgVars, ordVars, histVars, fld, cur, time, last_time, register_b, nsamp,
                   npoll, samples, misread, overlap>>

\* get_update_in_progress_flag, line 75, and the loop test of line 90
PollRead(c) ==
    /\ pc[c] = "poll_rd"
    /\ fetch(c)
    /\ IF poll_again(update_in_progress_flag(data_port))
       THEN /\ npoll[c] < MaxPolls
            /\ npoll' = [npoll EXCEPT ![c] = @ + 1]
            /\ pc' = [pc EXCEPT ![c] = "poll_sel"]
       ELSE /\ npoll' = npoll
            /\ pc' = [pc EXCEPT ![c] = "reg_sel"]
    /\ UNCHANGED <<cfgVars, ordVars, fld, cur, time, last_time, register_b, nsamp,
                   samples, overlap>>

\* get_rtc_register, line 82, for the next field of the sample
RegSelect(c) ==
    /\ pc[c] = "reg_sel"
    /\ select(c, field_register(fld[c], century_register))
    /\ pc' = [pc EXCEPT ![c] = "reg_rd"]
    /\ UNCHANGED <<cfgVars, ordVars, histVars, fld, cur, time, last_time, register_b, nsamp,
                   npoll, samples, misread, overlap>>

\* update_time returned s to read(): lines 110-126
SampleTaken(c, s) ==
    /\ nsamp' = [nsamp EXCEPT ![c] = @ + 1]
    /\ samples' = [samples EXCEPT ![c] = Append(@, s)]
    /\ time' = [time EXCEPT ![c] = s]
    /\ IF nsamp[c] = 0
       THEN /\ last_time' = [last_time EXCEPT ![c] = s]
            /\ pc' = [pc EXCEPT ![c] = "update_time"]
       ELSE IF same_sample(last_time[c], s)
            THEN /\ last_time' = last_time
                 /\ pc' = [pc EXCEPT ![c] = "regb_sel"]
            ELSE /\ last_time' = [last_time EXCEPT ![c] = s]
                 /\ pc' = [pc EXCEPT ![c] = "update_time"]

\* get_rtc_register, line 83, for a field of the sample
RegRead(c) ==
    /\ pc[c] = "reg_rd"
    /\ fetch(c)
    /\ LET s == set_field(cur[c], fld[c], data_port)
       IN  /\ cur' = [cur EXCEPT ![c] = s]
           /\ IF last_field(fld[c], century_register)
              THEN /\ SampleTaken(c, s)
                   /\ fld' = fld
              ELSE /\ fld' = [fld EXCEPT ![c] = @ + 1]
                   /\ pc' = [pc EXCEPT ![c] = "reg_sel"]
                   /\ UNCHANGED <<time, last_time, nsamp, samples>>
    /\ UNCHANGED <<cfgVars, ordVars, histVars, register_b, npoll, overlap>>

\* line 128: get_rtc_register(0x0B), the write
RegBSelect(c) ==
    /\ pc[c] = "regb_sel"
    /\ select(c, REG_STATUS_B)
    /\ pc' = [pc EXCEPT ![c] = "regb_rd"]
    /\ UNCHANGED <<cfgVars, ordVars, histVars, fld, cur, time, last_time, register_b, nsamp,
                   npoll, samples, misread, overlap>>

\* a read of register B that is repeated until two reads agree
RegBReadUntilStable(c) ==
    /\ pc[c] = "regb_rd"
    /\ fetch(c)
    /\ register_b' = [register_b EXCEPT ![c] = data_port]
    /\ pc' = [pc EXCEPT ![c] = IF register_b[c] = data_port THEN "decode"
                                ELSE "regb_sel"]
    /\ UNCHANGED <<cfgVars, ordVars, histVars, fld, cur, time, last_time, nsamp, npoll,
                   samples, overlap>>

\* line 128: get_rtc_register(0x0B), the read
RegBRead(c) ==
    /\ pc[c] = "regb_rd"
    /\ fetch(c)
    /\ register_b' = [register_b EXCEPT ![c] = data_port]
    /\ pc' = [pc EXCEPT ![c] = "decode"]
    /\ UNCHANGED <<cfgVars, ordVars, histVars, fld, cur, time, last_time, nsamp, npoll,
                   samples, overlap>>

\* lines 130-142
DecodeBcd(c) ==
    /\ pc[c] = "decode"
    /\ time' = [time EXCEPT ![c] = decode_bcd(@, register_b[c], century_register)]
    /\ pc' = [pc EXCEPT ![c] = "convert"]
    /\ UNCHANGED <<devVars, cfgVars, ordVars, histVars, fld, cur, last_time, register_b,
                   nsamp, npoll, ops, samples, sel, misread, overlap>>

\* lines 144-147
ConvertHour(c) ==
    /\ pc[c] = "convert"
    /\ time' = [time EXCEPT ![c] = convert_hour(@, register_b[c])]
    /\ pc' = [pc EXCEPT ![c] = "resolve"]
    /\ UNCHANGED <<devVars, cfgVars, ordVars, histVars, fld, cur, last_time, register_b,
                   nsamp, npoll, ops, samples, sel, misread, overlap>>

\* lines 149-160: the year, and the return; an overflowing u8 operation
\* panics when the build checks overflow and wraps when it does not
ResolveYear(c) ==
    /\ pc[c] = "resolve"
    /\ LET r == resolve_year(time[c], current_year, century_register)
       IN  IF r.ovf /\ overflow_checks
           THEN /\ pc' = [pc EXCEPT ![c] = "panicked"]
                /\ time' = time
           ELSE /\ pc' = [pc EXCEPT ![c] = "done"]
                /\ time' = [time EXCEPT ![c] = r.time]
    /\ UNCHANGED <<devVars, cfgVars, ordVars, histVars, fld, cur, last_time, register_b,
                   nsamp, npoll, ops, samples, sel, misread, overlap>>

Reader(c) ==
    \/ ReadCall(c) /\ UNCHANGED histVars
    \/ UpdateTime(c)
    \/ PollSelect(c)
    \/ PollRead(c) /\ UNCHANGED histVars
    \/ RegSelect(c)
    \/ RegRead(c)
    \/ RegBSelect(c)
    \/ RegBRead(c)
    \/ DecodeBcd(c)
    \/ ConvertHour(c)
    \/ ResolveYear(c)

\* the first read() of an instance
ReadOnce(c) == pc[c] = "idle" /\ ReadCall(c)

readerVars == <<pc, fld, cur, time, last_time, register_b, nsamp, npoll, ops,
                samples, sel, misread, overlap>>

\* ----------------------------------------------------------------- device
\* the device starts an update: it sets bit 0x80 of register 0x0A
DevBeginUpdate ==
    /\ devEvents < MaxDevEvents
    /\ BitAnd(regs[REG_STATUS_A], UIP_BIT) = 0
    /\ regs' = [regs EXCEPT ![REG_STATUS_A] = BitOr(@, UIP_BIT)]
    /\ devEvents' = devEvents + 1
    /\ UNCHANGED <<addr, cfgVars, ordVars, histVars, readerVars>>

\* the device ends an update: it clears the bit
DevEndUpdate ==
    /\ BitAnd(regs[REG_STATUS_A], UIP_BIT) # 0
    /\ regs' = [regs EXCEPT ![REG_STATUS_A] = @ - UIP_BIT]
    /\ UNCHANGED <<addr, devEvents, cfgVars, ordVars, histVars, readerVars>>

\* the other value a clock register takes in this model
Flip(v) == IF v % 2 = 0 THEN v + 1 ELSE v - 1

\* the device changes one clock register
DevWrite(r) ==
    /\ devEvents < MaxDevEvents
    /\ regs' = [regs EXCEPT ![r] = Flip(@)]
    /\ devEvents' = devEvents + 1
    /\ UNCHANGED <<addr, cfgVars, ordVars, histVars, readerVars>>

\* the registers a tick changes together when it carries into k fields
CarryOrder == <<REG_SECOND, REG_MINUTE, REG_HOUR, REG_DAY, REG_MONTH, REG_YEAR,
                REG_CENTURY>>
CarrySet(k) == {CarryOrder[i] : i \in 1 .. k}

\* a tick changes the second alone, carries into the minute, or carries
\* through every field
Carries == {1, 2, 7}

\* the device changes the second and the k - 1 fields above it at once
DevTick(k) ==
    /\ devEvents < MaxDevEvents
    /\ regs' = [r \in DOMAIN regs |->
                   IF r \in CarrySet(k) THEN Flip(regs[r]) ELSE regs[r]]
    /\ devEvents' = devEvents + 1
    /\ Observe(regs')
    /\ UNCHANGED <<addr, cfgVars, ordVars, readerVars>>

Device ==
    \/ DevBeginUpdate
    \/ DevEndUpdate
    \/ \E r \in ClockRegisters : DevWrite(r)

\* ------------------------------------------------ one reader, a live device
OrdIdle ==
    /\ lhs = TimeDefault
    /\ rhs = TimeDefault
    /\ ordering = "none"
    /\ relations = "none"

Init ==
    /\ regs \in {Cmos(88, 89, 35, 49, 18, 36, 32, 38, b) : b \in {0, 2, 4, 6}}
    /\ addr = 0
    /\ devEvents = 0
    /\ current_year = 24
    /\ century_register \in {0, REG_CENTURY}
    /\ overflow_checks \in BOOLEAN
    /\ callers = {1}
    /\ ReaderInit
    /\ OrdIdle

Next ==
    \/ \E c \in Instances : Reader(c)
    \/ Device

Spec == Init /\ [][Next]_vars

\* read() runs on a processor that keeps executing it: a step of the call that
\* can be taken is taken.  The device is under no obligation.
SpecLive == Init /\ [][Next]_vars /\ \A c \in Instances : WF_vars(Reader(c))

\* ------------------------- one reader, a device that changes its clock at once
InitAtomic ==
    /\ regs = Cmos(88, 89, 35, 49, 18, 36, 32, 38, 2)
    /\ addr = 0
    /\ devEvents = 0
    /\ current_year = 24
    /\ century_register \in {0, REG_CENTURY}
    /\ overflow_checks = FALSE
    /\ callers = {1}
    /\ ReaderInit
    /\ OrdIdle

\* the call starts: the history holds what the device shows now
WatchCall(c) ==
    /\ snaps' = [snaps EXCEPT ![c] = <<{}, {Snapshot(regs)}>>]
    /\ chg' = [chg EXCEPT ![c] = <<0, 0>>]

\* a poll came back clear: the register reads of one more sample begin
WatchPoll(c) ==
    IF pc'[c] = "reg_sel"
    THEN /\ snaps' = [snaps EXCEPT ![c] = <<@[2], {Snapshot(regs)}>>]
         /\ chg' = [chg EXCEPT ![c] = <<@[2], 0>>]
    ELSE UNCHANGED histVars

WatchedReader(c) ==
    \/ ReadOnce(c) /\ WatchCall(c)
    \/ UpdateTime(c)
    \/ PollSelect(c)
    \/ PollRead(c) /\ WatchPoll(c)
    \/ RegSelect(c)
    \/ RegRead(c)
    \/ RegBSelect(c)
    \/ RegBRead(c)
    \/ DecodeBcd(c)
    \/ ConvertHour(c)
    \/ ResolveYear(c)

NextAtomic ==
    \/ \E c \in Instances : WatchedReader(c)
    \/ DevBeginUpdate
    \/ DevEndUpdate
    \/ \E k \in Carries : DevTick(k)

SpecAtomic == InitAtomic /\ [][NextAtomic]_vars

\* --------------------------------------- one reader, a quiet device, any bytes
\* the configurations of the decoding runs: no century register and a
\* current year, or a century register and its byte
DecodeYears == {0, 24, 99, 100, 199, 200, 255}
DecodeCenturies == {0, 2, 25, 32}

InitDecode ==
    /\ \E b \in Byte, m \in {0, 2, 4, 6}, n \in DecodeCenturies :
          regs = Cmos(b, (b + 1) % 256, (b + 2) % 256, (b + 3) % 256,
                      (b + 4) % 256, (b + 5) % 256, n, 38, m)
    /\ addr = 0
    /\ devEvents = 0
    /\ \/ century_register = 0 /\ current_year \in DecodeYears
                               /\ regs[REG_CENTURY] = 32
       \/ century_register = REG_CENTURY /\ current_year = 24
    /\ overflow_checks \in BOOLEAN
    /\ callers = {1}
    /\ ReaderInit
    /\ OrdIdle

NextDecode == \E c \in Instances : Reader(c)

SpecDecode == InitDecode /\ [][NextDecode]_vars

\* ------------------------------------------- two readers on the same ports
\* two instances made by ReadRTC::new share the ports 0x70 and 0x71; each
\* calls read() once.  The clock reads 06:06:06 on 06/06/06 in BCD, 24-hour
\* mode (register B = 0x02), register A holds 0x06.
InitRace ==
    /\ regs = Cmos(6, 6, 6, 6, 6, 6, 6, 6, 2)
    /\ addr = 0
    /\ devEvents = 0
    /\ current_year = 6
    /\ century_register = 0
    /\ overflow_checks \in BOOLEAN
    /\ callers = Instances
    /\ ReaderInit
    /\ OrdIdle

NextRace ==
    \E c \in Instances :
        \/ ReadOnce(c) /\ UNCHANGED histVars
        \/ UpdateTime(c)
        \/ PollSelect(c)
        \/ PollRead(c) /\ UNCHANGED histVars
        \/ RegSelect(c)
        \/ RegRead(c)
        \/ RegBSelect(c)
        \/ RegBRead(c)
        \/ DecodeBcd(c)
        \/ ConvertHour(c)
        \/ ResolveYear(c)

SpecRace == InitRace /\ [][NextRace]_vars

\* ------------------------------------------------------ the ordering of Time
OrdBytes == 0 .. MaxOrdField

OrdTimes == [second : OrdBytes, minute : OrdBytes, hour : OrdBytes,
             day : OrdBytes, month : OrdBytes, year : OrdBytes,
             century : OrdBytes]

\* any Time, and a Time that differs from it in at most two fields
InitOrd ==
    /\ lhs \in OrdTimes
    /\ rhs \in {set_field(set_field(lhs, i, a), j, b) :
                   i \in 1 .. 7, j \in 1 .. 7, a \in OrdBytes, b \in OrdBytes}
    /\ ordering = "none"
    /\ relations = "none"
    /\ regs = Cmos(88, 89, 35, 49, 18, 36, 32, 38, 2)
    /\ addr = 0
    /\ devEvents = 0
    /\ current_year = 24
    /\ century_register = 0
    /\ overflow_checks = FALSE
    /\ callers = {}
    /\ ReaderInit

\* lhs.cmp(&rhs), and the three comparisons
Compare ==
    /\ ordering = "none"
    /\ ordering' = cmp(lhs, rhs)
    /\ relations' = [lt |-> lt(lhs, rhs), eq |-> eq(lhs, rhs), gt |-> gt(lhs, rhs)]
    /\ UNCHANGED <<lhs, rhs, devVars, cfgVars, readerVars, histVars>>

NextOrd == Compare

SpecOrd == InitOrd /\ [][NextOrd]_vars

\* ================================================================== claims
\* the positions of read() after the stable-sample loop
PastLoop == {"regb_sel", "regb_rd", "decode", "convert", "resolve", "done",
             "panicked"}

\* the sample read() accepted: the last one taken
Accepted(c) == samples[c][Len(samples[c])]

\* a poll: the write of 0x0A to the address port and the read that follows
IsPollWrite(o) == o.op = "out" /\ o.port = CMOS_ADDRESS /\ o.val = REG_STATUS_A
IsDataRead(o) == o.op = "in" /\ o.port = CMOS_DATA
IsClockSelect(o) ==
    o.op = "out" /\ o.port = CMOS_ADDRESS /\ o.val \in ClockRegisters

\* C1: update-flag gating.  In the port operations of every update_time call,
\* the select of register 0x00 comes directly after a poll (write 0x0A, read
\* data) whose byte had bit 0x80 clear, and no clock register is selected
\* directly after a poll whose byte had the bit set.
UpdateFlagGating ==
    \A c \in Instances : \A i \in 1 .. Len(ops[c]) :
        LET o == ops[c][i]
        IN  /\ (IsClockSelect(o) /\ o.val = REG_SECOND) =>
                  /\ i >= 3
                  /\ IsPollWrite(ops[c][i - 2])
                  /\ IsDataRead(ops[c][i - 1])
                  /\ ops[c][i - 1].val < 128
            /\ (IsClockSelect(o) /\ i >= 3 /\ IsPollWrite(ops[c][i - 2])) =>
                  /\ IsDataRead(ops[c][i - 1])
                  /\ ops[c][i - 1].val < 128

\* C1 witness: a re-sample whose first poll found the flag set, whose next
\* poll found it clear, and which then selected register 0x00
UpdateFlagGatingWitness ==
    /\ nsamp[1] >= 1
    /\ Len(ops[1]) >= 5
    /\ ops[1][2].val >= 128
    /\ ops[1][4].val < 128
    /\ ops[1][5] = Out(CMOS_ADDRESS, REG_SECOND)

\* C2: stability-loop exit.  read() is past the loop only with at least two
\* samples of which the last two are equal in all seven fields, and an equal
\* consecutive pair is always the last pair, with read() past the loop: the
\* first equal pair ends the sampling, a differing pair never does.
StabilityLoopExit ==
    \A c \in Instances :
        LET n == Len(samples[c])
        IN  /\ pc[c] \in PastLoop =>
                  n >= 2 /\ samples[c][n] = samples[c][n - 1]
            /\ \A i \in 2 .. n :
                  samples[c][i] = samples[c][i - 1] =>
                      i = n /\ pc[c] \in PastLoop
            /\ (n >= 2 /\ samples[c][n] # samples[c][n - 1]) =>
                  pc[c] \in {"update_time", "poll_sel", "poll_rd", "reg_sel",
                             "reg_rd"}

\* C2 witness: the first two samples differed, a third was taken, it equalled
\* the second and read() went on
StabilityLoopExitWitness ==
    /\ pc[1] = "done"
    /\ Len(samples[1]) = 3
    /\ samples[1][1] # samples[1][2]
    /\ samples[1][2] = samples[1][3]

\* the value of a packed-BCD byte, by its two digits
IsBcdByte(b) == b % 16 <= 9 /\ b \div 16 <= 9
BcdValue(b) == 10 * (b \div 16) + (b % 16)

\* the mode bits of the byte read() got from register 0x0B
BcdMode(c) == (register_b[c] \div 4) % 2 = 0
TwelveHourMode(c) == (register_b[c] \div 2) % 2 = 0

\* the hour that enters the 12-hour conversion, from the accepted raw hour:
\* its low seven bits as two BCD digits (in BCD mode), its top bit kept
HourBeforeConversion(c) ==
    LET raw == Accepted(c).hour
    IN  IF BcdMode(c)
        THEN 10 * ((raw % 128) \div 16) + (raw % 16) + 128 * (raw \div 128)
        ELSE raw

\* the 2-digit year that enters the year resolution
YearBeforeResolution(c) ==
    LET raw == Accepted(c).year
    IN  IF BcdMode(c) THEN 10 * (raw \div 16) + (raw % 16) ELSE raw

\* the century that enters the year resolution
CenturyBeforeResolution(c) ==
    LET raw == Accepted(c).century
    IN  IF BcdMode(c) THEN 10 * (raw \div 16) + (raw % 16) ELSE raw

\* C3: BCD decode.  With bit 0x04 of register B clear, a packed-BCD second,
\* minute, day or month is returned as its two-digit value, a packed-BCD year
\* enters the year resolution as its two-digit value, and the hour enters the
\* 12-hour conversion as the two-digit value of its low seven bits with bit
\* 0x80 as it was read.
BcdDecodeCorrect ==
    \A c \in Instances :
        (pc[c] \in {"convert", "resolve", "done"} /\ BcdMode(c)) =>
            LET raw == Accepted(c)
            IN  /\ IsBcdByte(raw.second) => time[c].second = BcdValue(raw.second)
                /\ IsBcdByte(raw.minute) => time[c].minute = BcdValue(raw.minute)
                /\ IsBcdByte(raw.day) => time[c].day = BcdValue(raw.day)
                /\ IsBcdByte(raw.month) => time[c].month = BcdValue(raw.month)
                /\ (pc[c] # "done" /\ IsBcdByte(raw.year)) =>
                       time[c].year = BcdValue(raw.year)
                /\ (pc[c] = "convert" /\ IsBcdByte(raw.hour % 128)) =>
                       /\ time[c].hour % 128 = BcdValue(raw.hour % 128)
                       /\ time[c].hour \div 128 = raw.hour \div 128

\* C3 witness: the raw hour 0x92 (12 with the PM bit) was decoded to 12 with
\* the PM bit, the raw second 0x90 to 90
BcdDecodeWitness ==
    /\ pc[1] = "convert"
    /\ BcdMode(1)
    /\ Accepted(1).hour = 146
    /\ time[1].hour = 140
    /\ Accepted(1).second = 144
    /\ time[1].second = 90

\* C4: 12-to-24-hour conversion.  With bit 0x02 of register B clear and bit
\* 0x80 set in the hour that enters the conversion, the hour read() returns
\* is (that hour without the bit, plus 12) mod 24.
HourConversionFormula ==
    \A c \in Instances :
        (pc[c] \in {"resolve", "done"} /\ TwelveHourMode(c)
             /\ HourBeforeConversion(c) >= 128) =>
            time[c].hour = ((HourBeforeConversion(c) - 128) + 12) % 24

\* C4 witness: binary 12-hour mode, raw hour 12 with the PM bit, returned 0
HourConversionWitness ==
    /\ pc[1] = "done"
    /\ register_b[1] = 4
    /\ Accepted(1).hour = 140
    /\ time[1].hour = 0

\* C5: noon.  In 12-hour mode an hour of 12 with the PM flag is returned as 12.
NoonIsTwelve ==
    \A c \in Instances :
        (pc[c] = "done" /\ TwelveHourMode(c)
             /\ HourBeforeConversion(c) = 128 + 12) =>
            time[c].hour = 12

\* C6: the year without a century register.  The returned year is the
\* 2-digit year plus (current_year / 100) * 100, plus 100 more when that is
\* below current_year.
CenturyAbsentYear ==
    \A c \in Instances :
        (pc[c] = "done" /\ century_register = 0) =>
            LET y == YearBeforeResolution(c) + ((current_year \div 100) * 100)
            IN  time[c].year = IF y < current_year THEN y + 100 ELSE y

\* C7: the year with a century register.  The returned year is the 2-digit
\* year plus the decoded century times 100.
CenturyPresentYear ==
    \A c \in Instances :
        (pc[c] = "done" /\ century_register # 0) =>
            time[c].year = YearBeforeResolution(c) + CenturyBeforeResolution(c) * 100

\* the fields of a Time in the order of the comparison
SortKey(t) == <<t.century, t.year, t.month, t.day, t.hour, t.minute, t.second>>

\* the lexicographic order of two keys: the first differing place decides
Lexicographic(a, b) ==
    IF a = b THEN Equal
    ELSE LET i == CHOOSE k \in 1 .. 7 :
                      a[k] # b[k] /\ \A j \in 1 .. (k - 1) : a[j] = b[j]
         IN  IF a[i] < b[i] THEN Less ELSE Greater

\* C8: the ordering law.  Exactly one of lhs < rhs, lhs == rhs, lhs > rhs
\* holds, cmp is the lexicographic order over (century, year, month, day,
\* hour, minute, second), and cmp is Equal exactly when the seven fields are
\* equal, as the derived equality says.
OrderingLaw ==
    ordering # "none" =>
        /\ ordering = Lexicographic(SortKey(lhs), SortKey(rhs))
        /\ (ordering = Equal) <=> (lhs = rhs)
        /\ relations.eq <=> (ordering = Equal)
        /\ relations.lt <=> (ordering = Less)
        /\ relations.gt <=> (ordering = Greater)
        /\ Cardinality({r \in {"lt", "eq", "gt"} : relations[r]}) = 1

\* C8 witness: the years decide although the seconds say the opposite
OrderingLawWitness ==
    /\ ordering = Less
    /\ lhs.century = rhs.century
    /\ lhs.year < rhs.year
    /\ lhs.second > rhs.second

\* C9: no failure outcome.  read() never ends in a panic.
NoFailureOutcome == \A c \in Instances : pc[c] # "panicked"

\* the positions of read() between a write to the address port and the read
\* of the data port that follows it
AwaitingData == {"poll_rd", "reg_rd", "regb_rd"}

\* C10: a lone read() reads what it selected.  A data-port read returns the
\* byte of another index than the reading call selected only when another
\* read() was in flight during the call; a call that ran alone so far finds
\* the address latch on its own index at every data-port read.
LoneReaderReadsOwnRegister ==
    \A c \in Instances :
        /\ misread[c] => overlap[c]
        /\ (pc[c] \in AwaitingData /\ ~overlap[c]) => addr = sel[c]

\* C10 witness: with two calls in flight, an instance selected register 0x0B
\* (which holds 2) and its data-port read returned 6, the byte of the index
\* the other instance had selected in between
RaceWitness ==
    \E c \in Instances :
        /\ misread[c]
        /\ overlap[c]
        /\ pc[c] = "decode"
        /\ register_b[c] = 6
        /\ regs[REG_STATUS_B] = 2

\* C11: mode gating.  With bit 0x04 of register B set nothing is decoded:
\* second, minute, day and month are returned as read and the hour enters the
\* conversion as read.  With bit 0x02 set the hour is not converted.  So with
\* both bits set second, minute, hour, day and month are the accepted raw
\* bytes, and with only bit 0x02 clear an hour without bit 0x80 is returned
\* as read.
ModeGating ==
    \A c \in Instances :
        pc[c] = "done" =>
            LET raw == Accepted(c)
            IN  /\ ~BcdMode(c) =>
                      /\ time[c].second = raw.second
                      /\ time[c].minute = raw.minute
                      /\ time[c].day = raw.day
                      /\ time[c].month = raw.month
                /\ ~TwelveHourMode(c) => time[c].hour = HourBeforeConversion(c)
                /\ (~BcdMode(c) /\ ~TwelveHourMode(c)) => time[c].hour = raw.hour
                /\ (~BcdMode(c) /\ TwelveHourMode(c) /\ raw.hour < 128) =>
                      time[c].hour = raw.hour

\* C11 witness: binary 24-hour mode, the bytes 0x90..0x94 returned as read
ModeGatingWitness ==
    /\ pc[1] = "done"
    /\ register_b[1] = 6
    /\ Accepted(1).second = 144
    /\ time[1].second = 144
    /\ time[1].hour = 146
    /\ time[1].month = 148

\* the k-th field of a Time, in the order of the struct
FieldOf(t, k) == <<t.second, t.minute, t.hour, t.day, t.month, t.year, t.century>>[k]

\* the indices an instance wrote to the address port since update_time began
Selected(c) == [i \in 1 .. (Len(ops[c]) + 1) \div 2 |-> ops[c][2 * i - 1].val]

\* the bytes the data port returned for them
Returned(c) == [i \in 1 .. Len(ops[c]) \div 2 |-> ops[c][2 * i].val]

\* the polls at the head of the trace
RECURSIVE PollCount(_)
PollCount(sq) ==
    IF sq # <<>> /\ Head(sq) = 10 THEN 1 + PollCount(Tail(sq)) ELSE 0

\* the order in which a sample selects its registers
SampleOrder == IF century_register = 0 THEN <<0, 2, 4, 7, 8, 9>>
               ELSE <<0, 2, 4, 7, 8, 9, century_register>>

\* C13: sampling order and pairing.  The port operations of an update_time
\* call alternate a write to the address port and a read of the data port;
\* after the polls of 0x0A the indices written are 0x00, 0x02, 0x04, 0x07,
\* 0x08, 0x09 and then the century register if one is configured, in this
\* order (followed only by 0x0B once the sample is complete), and the byte
\* read after the k-th of them is the k-th field of the sample.
SamplingOrder ==
    \A c \in Instances :
        LET w == Selected(c)
            r == Returned(c)
            p == PollCount(w)
        IN  /\ \A i \in 1 .. Len(ops[c]) :
                  IF i % 2 = 1
                  THEN ops[c][i].op = "out" /\ ops[c][i].port = CMOS_ADDRESS
                  ELSE ops[c][i].op = "in" /\ ops[c][i].port = CMOS_DATA
            /\ Len(w) - p <= Len(SampleOrder) + 1
            /\ \A k \in 1 .. (Len(w) - p) :
                  IF k <= Len(SampleOrder)
                  THEN /\ w[p + k] = SampleOrder[k]
                       /\ (p + k <= Len(r)) => FieldOf(cur[c], k) = r[p + k]
                  ELSE w[p + k] = 11
            /\ (Len(w) # Len(r)) =>
                  pc[c] \in AwaitingData /\ addr = w[Len(w)]
            /\ (Len(r) - p >= Len(SampleOrder)) =>
                  /\ samples[c] # <<>>
                  /\ \A k \in 1 .. Len(SampleOrder) :
                        FieldOf(Accepted(c), k) = r[p + k]

\* C13 witness: a sample with a century register is complete: after one poll
\* the seven registers were selected and read, the last being 0x32
SamplingOrderWitness ==
    /\ pc[1] = "regb_sel"
    /\ century_register = REG_CENTURY
    /\ Len(ops[1]) = 16
    /\ ops[1][15] = Out(CMOS_ADDRESS, REG_CENTURY)
    /\ Accepted(1).minute = ops[1][6].val
    /\ Accepted(1).minute # Accepted(1).hour

\* the data-port reads of clock registers since update_time began
ClockReads(c) ==
    {i \in 1 .. Len(ops[c]) \div 2 : ops[c][2 * i - 1].val \notin {10, 11}}

\* C14: no century register.  With century_register = 0 a sample selects
\* only 0x00, 0x02, 0x04, 0x07, 0x08 and 0x09 (six reads when complete), the
\* century is 0 in every sample, stays 0 through the decoding and is 0 in the
\* Time read() returns.
CenturyAbsent ==
    \A c \in Instances :
        century_register = 0 =>
            /\ \A i \in 1 .. Len(ops[c]) :
                  ops[c][i].op = "out" =>
                      ops[c][i].val \in {10, 0, 2, 4, 7, 8, 9, 11}
            /\ Cardinality(ClockReads(c)) <= 6
            /\ (pc[c] \in PastLoop \/ (pc[c] = "update_time" /\ nsamp[c] > 0)) =>
                  Cardinality(ClockReads(c)) = 6
            /\ \A n \in 1 .. Len(samples[c]) : samples[c][n].century = 0
            /\ cur[c].century = 0
            /\ time[c].century = 0
            /\ last_time[c].century = 0

\* C14 witness: a BCD read() without a century register returned, century 0,
\* after a sample was retaken
CenturyAbsentWitness ==
    /\ century_register = 0
    /\ pc[1] = "done"
    /\ BcdMode(1)
    /\ Len(samples[1]) = 3
    /\ time[1].century = 0
    /\ regs[REG_CENTURY] # 0

\* how often an instance selected register 0x0B since update_time began
ModeSelects(c) == Cardinality({i \in DOMAIN Selected(c) : Selected(c)[i] = 11})

\* C15: mode detection.  Register 0x0B is not selected while read() samples;
\* once read() is past the loop it is selected exactly once, directly after
\* the last register read of the last sample (no poll before it), read once
\* into register_b, and the decoding starts from the accepted raw sample
\* only after that read.
ModeReadOnce ==
    \A c \in Instances :
        LET w == Selected(c)
            r == Returned(c)
        IN  /\ pc[c] \in InLoop \cup {"idle", "regb_sel"} => ModeSelects(c) = 0
            /\ pc[c] \in PastLoop \ {"regb_sel"} =>
                  /\ ModeSelects(c) = 1
                  /\ w[Len(w)] = 11
                  /\ Len(w) >= 2
                  /\ w[Len(w) - 1] = SampleOrder[Len(SampleOrder)]
                  /\ Len(samples[c]) = nsamp[c]
            /\ pc[c] \in {"decode", "convert", "resolve", "done", "panicked"} =>
                  /\ Len(r) = Len(w)
                  /\ r[Len(r)] = register_b[c]
            /\ pc[c] \in {"regb_sel", "regb_rd", "decode"} => time[c] = Accepted(c)

\* C15 witness: read() returned after three samples; the last two port
\* operations are the write of 0x0B and the read of its byte 0x02
ModeReadOnceWitness ==
    /\ pc[1] = "done"
    /\ Len(samples[1]) = 3
    /\ register_b[1] = 2
    /\ ops[1][Len(ops[1]) - 1] = Out(CMOS_ADDRESS, REG_STATUS_B)
    /\ ops[1][Len(ops[1])] = In(CMOS_DATA, 2)

\* every poll of this read() so far returned bit 0x80 set
AllPollsBusy(c) ==
    /\ pc[c] # "idle"
    /\ nsamp[c] = 0
    /\ \A i \in 1 .. Len(ops[c]) \div 2 :
          ops[c][2 * i - 1].val = 10 => ops[c][2 * i].val >= 128

\* C17: a busy device blocks read().  As long as every poll returned the bit
\* set, read() is in the poll loop, every port operation so far was the write
\* of 0x0A to the address port or the read of the data port after it, and
\* after each such read the next step is another poll: no clock register and
\* no 0x0B is selected, and read() has not returned.
BusyDeviceBlocks ==
    \A c \in Instances :
        AllPollsBusy(c) =>
            /\ pc[c] \in {"update_time", "poll_sel", "poll_rd"}
            /\ \A i \in 1 .. Len(ops[c]) :
                  IF i % 2 = 1 THEN ops[c][i] = Out(CMOS_ADDRESS, 10)
                  ELSE IsDataRead(ops[c][i])
            /\ (Len(ops[c]) > 0 /\ Len(ops[c]) % 2 = 0) => pc[c] = "poll_sel"
            /\ Len(ops[c]) = 2 * npoll[c] + (IF pc[c] = "poll_rd" THEN 1 ELSE 0)

\* C17 witness: two polls in a row returned the bit set and read() is about
\* to poll again
BusyDeviceBlocksWitness ==
    /\ AllPollsBusy(1)
    /\ npoll[1] = 2
    /\ pc[1] = "poll_sel"
    /\ ops[1][2].val >= 128
    /\ ops[1][4].val >= 128

\* C18: read-only protocol, fixed configuration.  Every port write of the
\* reader goes to the address port and carries 0x0A, 0x00, 0x02, 0x04, 0x07,
\* 0x08, 0x09, 0x0B or century_register; no step changes current_year or
\* century_register, and no step of a reader changes a device register.
ReadOnlyFixedConfig ==
    /\ [](\A c \in Instances : \A i \in 1 .. Len(ops[c]) :
            ops[c][i].op = "out" =>
                /\ ops[c][i].port = CMOS_ADDRESS
                /\ ops[c][i].val \in {10, 0, 2, 4, 7, 8, 9, 11, century_register})
    /\ [][/\ current_year' = current_year
          /\ century_register' = century_register
          /\ (pc' # pc => regs' = regs)]_vars

\* C18 witness: a second read() of the same instance starts after the first
\* returned; the configuration is what new() stored and the address port
\* still holds the last index the first call selected
ReadOnlyFixedConfigWitness ==
    /\ pc[1] = "update_time"
    /\ nsamp[1] = 0
    /\ sel[1] = REG_STATUS_B
    /\ addr = REG_STATUS_B
    /\ century_register = REG_CENTURY
    /\ current_year = 24

\* the device changes of the clock registers in the window of the last two
\* samples of the call, and the snapshots the device held in that window
WindowChanges(c) == chg[c][1] + chg[c][2]
WindowSnapshots(c) == snaps[c][1] \cup snaps[c][2]

\* C12: no torn read.  The device changes its clock registers at once; when
\* it changed them at most once while the last two samples of a call were
\* taken, the sample the call accepted is what the registers held together at
\* one instant of that window.
NoTornRead ==
    \A c \in Instances :
        (pc[c] \in PastLoop /\ WindowChanges(c) <= 1) =>
            Accepted(c) \in WindowSnapshots(c)

\* C12 witness: the device carried into the minute once while the first of
\* the two samples was read, and the call accepted the second
NoTornReadWitness ==
    /\ pc[1] = "regb_sel"
    /\ nsamp[1] = 2
    /\ chg[1] = <<1, 0>>
    /\ Cardinality(WindowSnapshots(1)) = 2
    /\ \E t \in WindowSnapshots(1) : t.minute # Accepted(1).minute
    /\ Accepted(1) = Snapshot(regs)

\* the device has stopped: the update flag is clear and stays clear, and the
\* clock registers keep their bytes
DeviceQuiet ==
    /\ devEvents = MaxDevEvents
    /\ BitAnd(regs[REG_STATUS_A], UIP_BIT) = 0

\* a call is about to take a sample and has two samples left to take
TwoSamplesLeft(c) == pc[c] = "update_time" /\ nsamp[c] + 2 <= MaxSamples

\* with a quiet device the stable-sample loop ends within two further samples
SamplingConverges ==
    \A c \in Instances :
        (TwoSamplesLeft(c) /\ DeviceQuiet) ~> (pc[c] \in PastLoop)

\* C16: convergence.  Once every poll finds the update flag clear and the
\* clock registers no longer change, a read() that is about to take a sample
\* returns, and takes at most two further samples to do so.
Convergence ==
    \A c \in Instances :
        (TwoSamplesLeft(c) /\ DeviceQuiet) ~> (pc[c] = "done")

\* a valid hour of the 12-hour mode: 1..12, as two BCD digits in BCD mode
ValidHour12(c) ==
    /\ TwelveHourMode(c)
    /\ BcdMode(c) => IsBcdByte(Accepted(c).hour % 128)
    /\ HourBeforeConversion(c) % 128 \in 1 .. 12

\* a valid hour of the 24-hour mode: 0..23 without bit 0x80
ValidHour24(c) ==
    /\ ~TwelveHourMode(c)
    /\ Accepted(c).hour < 128
    /\ BcdMode(c) => IsBcdByte(Accepted(c).hour)
    /\ HourBeforeConversion(c) \in 0 .. 23

\* the one 12-hour encoding <<hour, PM bit>> that a returned hour comes from
Encoding12(h) ==
    IF h = 0 THEN <<12, 1>>
    ELSE IF h <= 12 THEN <<h, 0>>
    ELSE <<h - 12, 1>>

\* C19: hour range.  A valid hour is returned as a value in 0..23, and in the
\* 12-hour mode the returned hour determines the encoding it came from, so
\* distinct encodings return distinct hours.
HourRange ==
    \A c \in Instances :
        pc[c] = "done" =>
            /\ (ValidHour12(c) \/ ValidHour24(c)) => time[c].hour \in 0 .. 23
            /\ ValidHour12(c) =>
                  Encoding12(time[c].hour) =
                      <<HourBeforeConversion(c) % 128, Accepted(c).hour \div 128>>

\* C19 witness: BCD 12-hour mode, raw hour 0x92 (12 PM) returned as 0
HourRangeWitness ==
    /\ pc[1] = "done"
    /\ register_b[1] = 0
    /\ ValidHour12(1)
    /\ Accepted(1).hour = 146
    /\ time[1].hour = 0

====
